---- MODULE Spec2Model ----
(***************************************************************************)
(* Model of the fatal-error crate (src/src/lib.rs): the two-variant enum   *)
(* FatalError<E> and its combinators.  A scope owns at most one wrapper;   *)
(* every combinator taking `self` by value moves the wrapper out of the    *)
(* scope, every `&self` method leaves it there.  Each action records the   *)
(* method called, the receiver, the closure handed in, the value returned  *)
(* and the arguments the closure was invoked with.                         *)
(***************************************************************************)
EXTENDS Integers, Sequences, FiniteSets, TLC

\* ---------------------------------------------------------------- bounds
\* payloads (the type E) are the integers 0..MaxPayload
MaxPayload == 1
\* success values of a recovery closure (the type T) are 0..MaxOk
MaxOk == 0
\* longest recorded run of escalate()/deescalate() calls on one wrapper
MaxOps == 3

Payload == 0 .. MaxPayload
T == 0 .. MaxOk

\* ------------------------------------------------------------- the types
\* enum FatalError<E> { Error(E), Fatal(E) }
Error(x) == [tag |-> "Error", val |-> x]
Fatal(x) == [tag |-> "Fatal", val |-> x]
FatalError == {Error(x) : x \in Payload} \cup {Fatal(x) : x \in Payload}

\* Result<A, B>: the two variants are records with different fields
Ok(v) == [ok |-> v]
Err(e) == [err |-> e]
IsOk(r) == DOMAIN r = {"ok"}
IsErr(r) == DOMAIN r = {"err"}

\* Result<T, FatalError<E>>, the return type of a recovery closure
Outcome == {Ok(t) : t \in T} \cup {Err(e) : e \in FatalError}
\* F: FnOnce(E) -> Result<T, Self>
Recovery == [Payload -> Outcome]
\* F: FnOnce(E) -> E2, with E2 the integers 0..MaxPayload again
Mapper == [Payload -> Payload]
\* no closure handed in
NoFn == <<>>

\* one invocation of a closure: its result and the argument it was called on
Call(f, x) == [ret |-> f[x], calls |-> <<x>>]
\* a return without any invocation of the closure
Skip(r) == [ret |-> r, calls |-> <<>>]

\* ----------------------------------------------------------- the methods
is_error(self) == self.tag = "Error"

is_fatal_always(self) == TRUE
is_fatal(self) == self.tag = "Fatal"

into_inner(self) ==
  CASE self.tag = "Error" -> self.val
    [] self.tag = "Fatal" -> self.val

map_retag(self, f) ==
  [ret |-> Error(f[self.val]), calls |-> <<self.val>>]
map(self, f) ==
  CASE self.tag = "Error" -> [ret |-> Error(f[self.val]), calls |-> <<self.val>>]
    [] self.tag = "Fatal" -> [ret |-> Fatal(f[self.val]), calls |-> <<self.val>>]

escalate_toggle(self) ==
  IF self.tag = "Fatal" THEN Error(into_inner(self)) ELSE Fatal(into_inner(self))
escalate(self) == Fatal(into_inner(self))

deescalate_sticky(self) ==
  IF self.tag = "Fatal" THEN self ELSE Error(into_inner(self))
deescalate(self) == Error(into_inner(self))

fatality_retagged(self) ==
  CASE self.tag = "Error" -> Ok(self.val)
    [] self.tag = "Fatal" -> Err(Error(self.val))
fatality(self) ==
  CASE self.tag = "Error" -> Ok(self.val)
    [] self.tag = "Fatal" -> Err(self)

recover_swapped(self) ==
  CASE self.tag = "Error" -> Err(self.val)
    [] self.tag = "Fatal" -> Ok(self.val)
recover(self) ==
  CASE self.tag = "Error" -> Ok(self.val)
    [] self.tag = "Fatal" -> Err(self.val)

map_error_eager(self, f) == Call(f, into_inner(self))
map_error(self, f) ==
  CASE self.tag = "Error" -> Call(f, self.val)
    [] self.tag = "Fatal" -> Skip(Err(self))

map_fatal_eager(self, f) == Call(f, into_inner(self))
map_fatal(self, f) ==
  CASE self.tag = "Error" -> Skip(Err(self))
    [] self.tag = "Fatal" -> Call(f, self.val)

then_guarded(self, f) ==
  CASE self.tag = "Error" -> Call(f, self.val)
    [] self.tag = "Fatal" -> Skip(Err(self))
then(self, f) == Call(f, into_inner(self))

\* ------------------------------------------------------------ Display
\* strings are sequences of one-character strings
Digit(d) ==
  CASE d = 0 -> "0" [] d = 1 -> "1" [] d = 2 -> "2" [] d = 3 -> "3"
    [] d = 4 -> "4" [] d = 5 -> "5" [] d = 6 -> "6" [] d = 7 -> "7"
    [] d = 8 -> "8" [] d = 9 -> "9"

\* the payload's own Display (E: Display): an integer in decimal
RECURSIVE Render(_)
Render(x) ==
  IF x < 10 THEN <<Digit(x)>> ELSE Render(x \div 10) \o <<Digit(x % 10)>>

ErrorLabel == <<"E", "r", "r", "o", "r", ":", " ">>
FatalLabel == <<"F", "a", "t", "a", "l", " ">> \o ErrorLabel

fmt_unlabelled(self) == ErrorLabel \o Render(self.val)
fmt(self) ==
  CASE self.tag = "Error" -> ErrorLabel \o Render(self.val)
    [] self.tag = "Fatal" -> FatalLabel \o Render(self.val)

\* -------------------------------------------------------------- the state
VARIABLES
  owned,   \* <<w>> while the scope owns the wrapper w, <<>> once it is moved
  built,   \* <<w0>>: the latest wrapper as it was constructed
  hist,    \* the escalate/deescalate calls applied to it since, in order
  op,      \* the method called last
  arg,     \* <<self>> of that call, <<>> for a constructor
  fn,      \* the closure passed to it, NoFn if it takes none
  ret,     \* <<value returned>>
  calls    \* the arguments the closure was invoked with during the call

vars == <<owned, built, hist, op, arg, fn, ret, calls>>

Init ==
  /\ \E w \in FatalError : owned = <<w>> /\ built = <<w>> /\ ret = <<w>>
  /\ hist = <<>>
  /\ op = "new"
  /\ arg = <<>>
  /\ fn = NoFn
  /\ calls = <<>>

\* FatalError::Error(x) or FatalError::Fatal(x) in a scope that owns none
Construct(w) ==
  /\ owned = <<>>
  /\ owned' = <<w>> /\ built' = <<w>> /\ hist' = <<>>
  /\ op' = "new" /\ arg' = <<>> /\ fn' = NoFn /\ ret' = <<w>> /\ calls' = <<>>

\* a &self method: the wrapper stays where it is
Borrow(name, r) ==
  /\ owned # <<>>
  /\ op' = name /\ arg' = owned /\ fn' = NoFn /\ ret' = <<r>> /\ calls' = <<>>
  /\ UNCHANGED <<owned, built, hist>>

\* a self method returning something that is not kept in the scope
Move(name, f, r, c) ==
  /\ owned # <<>>
  /\ op' = name /\ arg' = owned /\ fn' = f /\ ret' = <<r>> /\ calls' = c
  /\ owned' = <<>>
  /\ UNCHANGED <<built, hist>>

IsError == owned # <<>> /\ Borrow("is_error", is_error(owned[1]))

IsFatal == owned # <<>> /\ Borrow("is_fatal", is_fatal(owned[1]))

Fmt == owned # <<>> /\ Borrow("fmt", fmt(owned[1]))

IntoInner == owned # <<>> /\ Move("into_inner", NoFn, into_inner(owned[1]), <<>>)

\* the mapped wrapper is a new wrapper, bound in place of the old one
Map(f) ==
  /\ owned # <<>>
  /\ LET r == map(owned[1], f) IN
       /\ owned' = <<r.ret>> /\ built' = <<r.ret>> /\ hist' = <<>>
       /\ op' = "map" /\ arg' = owned /\ fn' = f /\ ret' = <<r.ret>>
       /\ calls' = r.calls

Escalate ==
  /\ owned # <<>>
  /\ Len(hist) < MaxOps
  /\ LET r == escalate(owned[1]) IN
       /\ owned' = <<r>> /\ hist' = Append(hist, "escalate")
       /\ op' = "escalate" /\ arg' = owned /\ fn' = NoFn /\ ret' = <<r>>
       /\ calls' = <<>>
  /\ UNCHANGED built

Deescalate ==
  /\ owned # <<>>
  /\ Len(hist) < MaxOps
  /\ LET r == deescalate(owned[1]) IN
       /\ owned' = <<r>> /\ hist' = Append(hist, "deescalate")
       /\ op' = "deescalate" /\ arg' = owned /\ fn' = NoFn /\ ret' = <<r>>
       /\ calls' = <<>>
  /\ UNCHANGED built

Fatality == owned # <<>> /\ Move("fatality", NoFn, fatality(owned[1]), <<>>)

Recover == owned # <<>> /\ Move("recover", NoFn, recover(owned[1]), <<>>)

MapError(f) ==
  /\ owned # <<>>
  /\ LET r == map_error(owned[1], f) IN Move("map_error", f, r.ret, r.calls)

MapFatal(f) ==
  /\ owned # <<>>
  /\ LET r == map_fatal(owned[1], f) IN Move("map_fatal", f, r.ret, r.calls)

Then(f) ==
  /\ owned # <<>>
  /\ LET r == then(owned[1], f) IN Move("then", f, r.ret, r.calls)

Next ==
  \/ \E w \in FatalError : Construct(w)
  \/ IsError
  \/ IsFatal
  \/ Fmt
  \/ IntoInner
  \/ \E f \in Mapper : Map(f)
  \/ Escalate
  \/ Deescalate
  \/ Fatality
  \/ Recover
  \/ \E f \in Recovery : MapError(f)
  \/ \E f \in Recovery : MapFatal(f)
  \/ \E f \in Recovery : Then(f)

Spec == Init /\ [][Next]_vars

\* ------------------------------------------------------------- the claims
Receiver == arg[1]
Returned == ret[1]
LastTransition == hist[Len(hist)]

\* C1: map_error on Error(x) invokes f exactly once, on x, and returns f's
\* result unchanged; on Fatal(x) it returns Err(Fatal(x)) and f is never
\* invoked.
C1_MapError ==
  op = "map_error" =>
    LET x == Receiver.val IN
      /\ Receiver.tag = "Error" => calls = <<x>> /\ Returned = fn[x]
      /\ Receiver.tag = "Fatal" => calls = <<>> /\ Returned = Err(Fatal(x))

\* map_error short-circuited on a fatal error although f would have recovered
C1_Witness ==
  /\ op = "map_error"
  /\ Receiver.tag = "Fatal"
  /\ IsOk(fn[Receiver.val])
  /\ calls = <<>>
  /\ IsErr(Returned)

\* C2: map_fatal mirrors map_error: on Fatal(x) it invokes f exactly once, on
\* x, and returns f's result unchanged; on Error(x) it returns Err(Error(x))
\* and f is never invoked.  f runs in map_fatal exactly when it would not run
\* in map_error on the same wrapper.
C2_MapFatal ==
  op = "map_fatal" =>
    LET x == Receiver.val IN
      /\ Receiver.tag = "Fatal" => calls = <<x>> /\ Returned = fn[x]
      /\ Receiver.tag = "Error" => calls = <<>> /\ Returned = Err(Error(x))
      /\ (calls = <<>>) # (map_error(Receiver, fn).calls = <<>>)

\* map_fatal ran f on a fatal error and f failed again, with a non fatal error
C2_Witness ==
  /\ op = "map_fatal"
  /\ Receiver.tag = "Fatal"
  /\ calls = <<Receiver.val>>
  /\ IsErr(Returned)
  /\ Returned.err.tag = "Error"

\* C3: fatality on Error(x) yields Ok(x); on Fatal(x) it yields Err(w) with w
\* the receiver itself: tag Fatal, payload x.
C3_Fatality ==
  op = "fatality" =>
    LET x == Receiver.val IN
      /\ Receiver.tag = "Error" => Returned = Ok(x)
      /\ Receiver.tag = "Fatal" =>
           /\ IsErr(Returned)
           /\ Returned.err = Receiver
           /\ Returned.err.tag = "Fatal"
           /\ Returned.err.val = x

\* fatality of a wrapper that was built non fatal and escalated afterwards
C3_Witness ==
  /\ op = "fatality"
  /\ built[1].tag = "Error"
  /\ Receiver.tag = "Fatal"
  /\ IsErr(Returned)

\* C4: then invokes f exactly once on the payload whatever the tag and
\* returns f's result; Error(x).then(f) and Fatal(x).then(f) are equal.
C4_Then ==
  op = "then" =>
    LET x == Receiver.val IN
      /\ calls = <<x>>
      /\ Returned = fn[x]
      /\ then(Error(x), fn) = then(Fatal(x), fn)

\* then ran f on a fatal error
C4_Witness ==
  /\ op = "then"
  /\ Receiver.tag = "Fatal"
  /\ calls = <<Receiver.val>>
  /\ IsOk(Returned)

\* C5: map keeps the tag, its payload is f of the original payload, and f is
\* invoked exactly once.
C5_Map ==
  op = "map" =>
    /\ is_fatal(Returned) = is_fatal(Receiver)
    /\ is_error(Returned) = is_error(Receiver)
    /\ Returned.val = fn[Receiver.val]
    /\ calls = <<Receiver.val>>

\* map of a fatal error under an f that changes the payload
C5_Witness ==
  /\ op = "map"
  /\ Receiver.tag = "Fatal"
  /\ Returned.val # Receiver.val
  /\ owned = <<Returned>>

\* C6: escalate yields Fatal and deescalate yields Error whatever the prior
\* tag, and applying either a second time changes nothing.
C6_Idempotent ==
  /\ op = "escalate" =>
       /\ Returned.tag = "Fatal"
       /\ escalate(Returned) = Returned
       /\ (Receiver.tag = "Fatal" => Returned = Receiver)
  /\ op = "deescalate" =>
       /\ Returned.tag = "Error"
       /\ deescalate(Returned) = Returned
       /\ (Receiver.tag = "Error" => Returned = Receiver)
  /\ owned # <<>> =>
       LET w == owned[1] IN
         /\ escalate(escalate(w)) = escalate(w)
         /\ deescalate(deescalate(w)) = deescalate(w)

\* escalate called twice in a row on a wrapper built non fatal
C6_Witness ==
  /\ op = "escalate"
  /\ built[1].tag = "Error"
  /\ hist = <<"escalate", "escalate">>
  /\ Returned = Receiver

\* C7: exactly one of is_error and is_fatal is true of a wrapper: is_error
\* iff the tag is Error, is_fatal iff the tag is Fatal.
C7_Exclusive ==
  /\ op = "is_error" => Returned = (Receiver.tag = "Error")
  /\ op = "is_fatal" => Returned = (Receiver.tag = "Fatal")
  /\ owned # <<>> => is_error(owned[1]) # is_fatal(owned[1])

\* is_fatal answered no for a wrapper that was fatal and got deescalated
C7_Witness ==
  /\ op = "is_fatal"
  /\ built[1].tag = "Fatal"
  /\ Returned = FALSE
  /\ is_error(owned[1])

\* C8: recover on Error(x) yields Ok(x), on Fatal(x) Err(x), the bare payload
\* on both sides; Fatal(x).escalate().recover() is Err(x).
C8_Recover ==
  /\ op = "recover" =>
       LET x == Receiver.val IN
         /\ Receiver.tag = "Error" => Returned = Ok(x)
         /\ Receiver.tag = "Fatal" => Returned = Err(x)
  /\ \A x \in Payload : recover(escalate(Fatal(x))) = Err(x)

\* Fatal(x).escalate().recover()
C8_Witness ==
  /\ op = "recover"
  /\ built[1].tag = "Fatal"
  /\ hist = <<"escalate">>
  /\ Returned = Err(built[1].val)

\* C9: a wrapper displays as "Error: " or "Fatal Error: " followed by the
\* payload's own rendering, so the two tags of one payload display differently.
C9_Display ==
  op = "fmt" =>
    LET x == Receiver.val IN
      /\ Receiver.tag = "Error" =>
           Returned = <<"E", "r", "r", "o", "r", ":", " ">> \o Render(x)
      /\ Receiver.tag = "Fatal" =>
           Returned = <<"F", "a", "t", "a", "l", " ",
                        "E", "r", "r", "o", "r", ":", " ">> \o Render(x)
      /\ fmt(Error(x)) # fmt(Fatal(x))

\* "Fatal Error: 1"
C9_Witness ==
  /\ op = "fmt"
  /\ Receiver = Fatal(1)
  /\ Len(Returned) = 14
  /\ Returned[1] = "F"
  /\ Returned[14] = "1"

\* C10: after any run of escalate and deescalate calls the payload is the one
\* the wrapper was constructed with, and the tag is the one the last call set,
\* or the constructed one if there was no call.
C10_LastTransition ==
  owned # <<>> =>
    /\ into_inner(owned[1]) = built[1].val
    /\ owned[1].tag =
         IF hist = <<>> THEN built[1].tag
         ELSE IF LastTransition = "escalate" THEN "Fatal" ELSE "Error"

\* built fatal, then deescalate, escalate, deescalate
C10_Witness ==
  /\ owned # <<>>
  /\ built[1].tag = "Fatal"
  /\ hist = <<"deescalate", "escalate", "deescalate">>
  /\ owned[1] = Error(built[1].val)

====
